---- MODULE Spec2Model ----
(***************************************************************************)
(* Model of the workflow engine of agents/orchestrator.py:                 *)
(* OrchestratorAgent.process and _execute_workflow, with the state merge   *)
(* (_extract_state_updates) and the review gate (_perform_review).         *)
(*                                                                         *)
(* Python dicts are functions whose DOMAIN is the set of keys present.     *)
(* Python strings that the code searches or formats are sequences of       *)
(* words, so that `"x" in text` is a search and an f-string a              *)
(* concatenation.  The capabilities (DeveloperAgent.process,               *)
(* ReviewerAgent.process) and the file system are the environment: a call  *)
(* returns any mapping of CapResults, returns a non-mapping, or raises;    *)
(* a read of a path succeeds or fails.                                     *)
(*                                                                         *)
(* Two smaller machines share the module: the loop of DeveloperAgent that  *)
(* creates the test files (DevSpec) and BaseAgent.learn over its           *)
(* KnowledgeBase (LearnSpec).  Each specification moves its own variables  *)
(* and leaves the others at rest.                                          *)
(***************************************************************************)
EXTENDS Integers, Sequences, FiniteSets, TLC

VARIABLES
    config,          \* the mapping OrchestratorAgent was constructed with
    config_file,     \* config/config.yaml, as it was at construction
    workflows,       \* self.workflows
    input_data,      \* the argument of process
    pc,              \* where process stands
    i,               \* position of the loop in workflow["steps"], 1-based
    results,         \* results
    current_state,   \* current_state
    agent_input,     \* agent_input of the latest step
    result,          \* what the latest agent call returned
    review_input,    \* review_input of the review gate that is running
    review_result,   \* what the reviewer of the gate that rejected returned
    exc,             \* the latest exception a call raised
    outcome,         \* what process returned, or the exception it raised
    trace,           \* history: what was called and what came back, in order
    \* DeveloperAgent, the loop that creates the test files
    require_tests,   \* domain_rules[domain]["require_tests"] / issue["update_tests"]
    created_files,   \* created_files (files in _fix_issue)
    dev_pos,         \* position of the for loop in created_files, 1-based
    dev_pc,          \* where the loop stands
    dev_sources,     \* history: how many files the list held before the loop
    \* BaseAgent.learn and its KnowledgeBase
    index,           \* knowledge_base.index["topics"]
    learn_pc,        \* where learn stands
    topic,           \* the argument of the learn that runs or ran last
    discoveries,     \* history: runs of _discover_and_implement, per topic
    returned         \* history: learn calls that returned, per topic

engine_vars == <<config, config_file, workflows, input_data,
                 pc, i, results, current_state, agent_input,
                 result, review_input, review_result, exc, outcome, trace>>

dev_vars == <<require_tests, created_files, dev_pos, dev_pc, dev_sources>>

learn_vars == <<index, learn_pc, topic, discoveries, returned>>

vars == <<engine_vars, dev_vars, learn_vars>>

\* ------------------------------------------------------------------------
\* Bounds
\* ------------------------------------------------------------------------
MaxSteps == 2

\* the longest list of source files the developer is given
MaxFiles == 2

\* how many "test_" prefixes a file name can take before open() refuses it
\* as too long
NameMax == 3

\* how many times learn is called
MaxLearns == 4

\* ------------------------------------------------------------------------
\* Python values
\* ------------------------------------------------------------------------
None == "<None>"

EmptyDict == [k \in {} |-> None]

\* d.get(k, default)
Get(d, k, default) == IF k \in DOMAIN d THEN d[k] ELSE default

\* {**a, **b}, a.update(b): keys of b win
Merge(a, b) ==
    [k \in (DOMAIN a) \cup (DOMAIN b) |-> IF k \in DOMAIN b THEN b[k] ELSE a[k]]

\* needle in hay, on texts
Contains(needle, hay) ==
    \E s \in 0..(Len(hay) - Len(needle)) :
        \A j \in 1..Len(needle) : hay[s + j] = needle[j]

\* the elements of a list
Elems(l) == {l[j] : j \in DOMAIN l}

\* repr of a dict key, as KeyError prints it
Repr(k) ==
    CASE k = "type" -> "'type'"
      [] k = "component" -> "'component'"
      [] k = "coverage_threshold" -> "'coverage_threshold'"
      [] OTHER -> "'?'"

\* str(e)
StrE(e) == IF e.cls = "KeyError" THEN <<Repr(e.args[1])>> ELSE e.args

\* ------------------------------------------------------------------------
\* Workflow definitions (config "workflows"), initial contexts
\* ------------------------------------------------------------------------
StepCreate ==
    [type |-> "create_component", agent |-> "developer",
     params |-> [domain |-> "frontend"], require_review |-> TRUE]

StepReview ==
    [type |-> "review_code", agent |-> "reviewer",
     review_type |-> "domain_validation"]

StepVerify == [type |-> "verify_fix", agent |-> "reviewer"]

StepImplement ==
    [type |-> "implement_feature",
     params |-> [action |-> "update_component", domain |-> "backend"],
     outputs |-> <<"domain", "action", "code", "created_files">>,
     require_review |-> TRUE, review_type |-> "verify_fix",
     review_params |-> [action |-> "review_code"]]

StepDeploy == [type |-> "deploy", agent |-> "architect"]

StepNoType == [agent |-> "developer", params |-> [domain |-> "frontend"]]

StepCatalog ==
    {StepCreate, StepReview, StepVerify, StepImplement, StepDeploy, StepNoType}

RECURSIVE SeqsUpTo(_, _)
SeqsUpTo(S, n) ==
    IF n = 0 THEN {<<>>}
    ELSE LET shorter == SeqsUpTo(S, n - 1)
         IN shorter \cup {Append(s, x) : s \in {t \in shorter : Len(t) = n - 1}, x \in S}

WorkflowName == "create_feature"

CtxComponent ==
    [workflow |-> WorkflowName,
     component |-> [name |-> "TestComponent", domain |-> "frontend"],
     issue |-> [update_tests |-> TRUE]]

CtxAction ==
    [workflow |-> WorkflowName, action |-> "fix_issue", domain |-> "mobile",
     files |-> <<"a.tsx", "b.py">>]

CtxNoName == [component |-> [name |-> "TestComponent", domain |-> "frontend"]]

CtxUnknown == [workflow |-> "non_existent_workflow"]

CtxEmptyName == [workflow |-> ""]

Contexts == {CtxComponent, CtxAction, CtxNoName, CtxUnknown, CtxEmptyName}

\* f.read()
Content(p) == IF p = "a.tsx" THEN "content of a.tsx" ELSE "content of b.py"

\* ------------------------------------------------------------------------
\* What a capability call can do
\* ------------------------------------------------------------------------
InvalidNaming == <<"Invalid", "naming", "convention">>
InvalidPath == <<"Invalid", "file", "path">>

CapResults ==
    { [status |-> "success", files |-> <<"a.tsx">>, domain |-> "frontend"],
      [status |-> "success", created |-> <<"b.py", "a.tsx">>, updated |-> <<"a.tsx">>,
       action |-> "create_component", created_files |-> <<"c.css">>,
       code |-> [files |-> <<[path |-> "c.css", content |-> "generated"]>>]],
      [error |-> <<"Action", "not", "allowed:", "deploy">>],
      [status |-> "error", error |-> InvalidNaming],
      [status |-> "error", error |-> <<"Error:", "Invalid", "file", "path", "given">>],
      [status |-> "error", error |-> <<"Component", "domain", "not", "recognized">>],
      [status |-> "error"],
      [status |-> "failed", issues |-> <<"domain_boundary", "test_coverage">>],
      [status |-> "failed"],
      [status |-> "review_failed", review_feedback |-> <<"test_coverage">>,
       suggestions |-> <<>>] }

\* ReviewerAgent._review_code: what it returns for the issues it found
ReviewCodeResult(issues) ==
    IF issues # <<>>
      THEN [status |-> "review_failed", review_feedback |-> issues, suggestions |-> <<>>]
      ELSE [status |-> "success", issues |-> <<>>, suggestions |-> <<>>]

CapExceptions ==
    { [cls |-> "Exception", args |-> <<"disk", "full">>],
      [cls |-> "KeyError", args |-> <<"component">>] }

\* DeveloperAgent._apply_naming_convention, "PascalCase":
\* "".join(word.capitalize() for word in name.split("_"))
ApplyNamingConvention(name) ==
    CASE name = "TestComponent" -> "Testcomponent"
      [] name = "test_component" -> "TestComponent"
      [] OTHER -> name

\* DeveloperAgent._apply_domain_rules: the component is changed in place
ApplyDomainRules(component) ==
    [component EXCEPT !["name"] = ApplyNamingConvention(@)]

\* ------------------------------------------------------------------------
\* OrchestratorAgent: pure parts
\* ------------------------------------------------------------------------
\* mutant: every agent name of the catalog is dispatched
RegisteredAgents_Open == {"developer", "reviewer", "architect"}

RegisteredAgents == {"developer", "reviewer"}

\* _load_config: the argument of the constructor is not looked at
LoadConfig(file) == IF file.exists THEN file.content ELSE EmptyDict

\* mutant: only a missing name is refused
WorkflowUnknown_MissingOnly(workflow_name, wfs) ==
    \/ workflow_name = None
    \/ workflow_name = ""

\* process: not workflow_name or workflow_name not in self.workflows
WorkflowUnknown(workflow_name, wfs) ==
    \/ workflow_name = None
    \/ workflow_name = ""
    \/ workflow_name \notin DOMAIN wfs

WorkflowError(workflow_name) ==
    [cls |-> "WorkflowError", args |-> <<"Unknown", "workflow:", workflow_name>>]

\* the steps of the workflow process resolved
Steps ==
    IF Get(input_data, "workflow", None) \in DOMAIN workflows
      THEN workflows[input_data["workflow"]]["steps"]
      ELSE <<>>

\* mutant: the state is not passed on
BuildAgentInput_ParamsOnly(step, state) ==
    Merge([action |-> step["type"]], Get(step, "params", EmptyDict))

\* mutant: the params of the step win over the state
BuildAgentInput_ParamsWin(step, state) ==
    Merge(Merge([action |-> step["type"]], state), Get(step, "params", EmptyDict))

\* agent_input = {"action": step_type, **params, **current_state}
BuildAgentInput(step, state) ==
    Merge(Merge([action |-> step["type"]], Get(step, "params", EmptyDict)), state)

\* the paths of a list, in order, that could be read
RECURSIVE PrepareFiles(_, _)
PrepareFiles(files, readable) ==
    IF files = <<>> THEN <<>>
    ELSE LET p == Head(files)
             rest == PrepareFiles(Tail(files), readable)
         IN IF p \in readable
              THEN <<[path |-> p, content |-> Content(p)]>> \o rest
              ELSE rest

\* mutant: a path that cannot be read is sent with no content
Augment_KeepsUnreadable(input, step_type, state, readable) ==
    IF step_type = "review_code"
      THEN LET files == Get(state, "files", <<>>)
           IN Merge(input,
                    [code |-> [files |->
                        [n \in DOMAIN files |->
                            [path |-> files[n],
                             content |-> IF files[n] \in readable
                                           THEN Content(files[n]) ELSE None]]]])
    ELSE IF step_type = "verify_fix"
      THEN Merge(input,
                 [fix |-> [files |-> Get(state, "files", <<>>),
                           update_tests |-> Get(Get(state, "issue", EmptyDict),
                                                "update_tests", FALSE)]])
    ELSE input

\* the "code" / "fix" field added for review_code / verify_fix steps
Augment(input, step_type, state, readable) ==
    IF step_type = "review_code"
      THEN Merge(input,
                 [code |-> [files |-> PrepareFiles(Get(state, "files", <<>>), readable)]])
    ELSE IF step_type = "verify_fix"
      THEN Merge(input,
                 [fix |-> [files |-> Get(state, "files", <<>>),
                           update_tests |-> Get(Get(state, "issue", EmptyDict),
                                                "update_tests", FALSE)]])
    ELSE input

\* the paths the augmentation of a step tries to read
AugmentReads(step_type, state) ==
    IF step_type = "review_code" THEN Elems(Get(state, "files", <<>>)) ELSE {}

\* mutant: only the naming-convention text is looked for
Classify_NamingOnly(res) ==
    IF Get(res, "status", None) = "error"
      THEN IF Contains(InvalidNaming, Get(res, "error", <<>>))
             THEN "rejected"
             ELSE "error"
    ELSE IF Get(res, "status", None) = "failed"
      THEN "failed"
    ELSE "proceed"

\* mutant: only status "success" proceeds
Classify_StrictStatus(res) ==
    IF Get(res, "status", None) = "error"
      THEN IF \/ Contains(InvalidNaming, Get(res, "error", <<>>))
              \/ Contains(InvalidPath, Get(res, "error", <<>>))
             THEN "rejected"
             ELSE "error"
    ELSE IF Get(res, "status", None) = "success"
      THEN "proceed"
    ELSE "failed"

\* the branch of "Handle agent result" a result takes
Classify(res) ==
    IF Get(res, "status", None) = "error"
      THEN IF \/ Contains(InvalidNaming, Get(res, "error", <<>>))
              \/ Contains(InvalidPath, Get(res, "error", <<>>))
             THEN "rejected"
             ELSE "error"
    ELSE IF Get(res, "status", None) = "failed"
      THEN "failed"
    ELSE "proceed"

\* mutant: every record is attributed to the default agent
StepRecord_DefaultAgent(step_type, agent, res) ==
    [step |-> step_type, agent |-> "developer", result |-> res]

\* mutant: the record's step and agent swapped
StepRecord_Swapped(step_type, agent, res) ==
    [step |-> agent, agent |-> step_type, result |-> res]

StepRecord(step_type, agent, res) ==
    [step |-> step_type, agent |-> agent, result |-> res]

ReviewFailedOutcome(step_type, feedback, partial) ==
    [status |-> "review_failed", step |-> step_type,
     review_feedback |-> feedback, partial_results |-> partial]

AgentErrorOutcome(step_type, res, partial) ==
    [status |-> "error", error |-> <<"Workflow", "failed", "at", "step", step_type>>,
     details |-> Get(res, "error", None), partial_results |-> partial]

\* mutant: the outcome for an unknown agent carries no partial_results
UnknownAgentOutcome_NoPartial(agent, partial) ==
    [status |-> "error", error |-> <<"Unknown", "agent", "type:", agent>>]

\* mutant: the outcome for an unknown agent forgets the steps that ran
UnknownAgentOutcome_Restart(agent, partial) ==
    [status |-> "error", error |-> <<"Unknown", "agent", "type:", agent>>,
     partial_results |-> <<>>]

UnknownAgentOutcome(agent, partial) ==
    [status |-> "error", error |-> <<"Unknown", "agent", "type:", agent>>,
     partial_results |-> partial]

\* mutant: the details carry the arguments of the exception, not str(e),
\* and the records are dropped
ExceptionOutcome_Bare(step_type, e, partial) ==
    [status |-> "error", error |-> <<"Workflow", "step", step_type, "failed">>,
     details |-> e.args, partial_results |-> <<>>]

ExceptionOutcome(step_type, e, partial) ==
    [status |-> "error", error |-> <<"Workflow", "step", step_type, "failed">>,
     details |-> StrE(e), partial_results |-> partial]

CompletedOutcome(recs) == [status |-> "completed", results |-> recs]

\* mutant: the failing step is recorded before its result is classified
HaltOutcome_Recorded(step_type, res, partial) ==
    LET recs == Append(partial, StepRecord(step_type, "developer", res))
    IN CASE Classify(res) = "rejected" ->
              ReviewFailedOutcome(step_type, <<Get(res, "error", None)>>, recs)
         [] Classify(res) = "error" ->
              AgentErrorOutcome(step_type, res, recs)
         [] OTHER ->
              ReviewFailedOutcome(step_type, Get(res, "issues", <<>>), recs)

\* mutant: a failed result reports no issues
HaltOutcome_NoIssues(step_type, res, partial) ==
    CASE Classify(res) = "rejected" ->
           ReviewFailedOutcome(step_type, <<Get(res, "error", None)>>, partial)
      [] Classify(res) = "error" ->
           AgentErrorOutcome(step_type, res, partial)
      [] OTHER ->
           ReviewFailedOutcome(step_type, <<>>, partial)

\* the outcome returned for a result that does not classify as proceed
HaltOutcome(step_type, res, partial) ==
    CASE Classify(res) = "rejected" ->
           ReviewFailedOutcome(step_type, <<Get(res, "error", None)>>, partial)
      [] Classify(res) = "error" ->
           AgentErrorOutcome(step_type, res, partial)
      [] OTHER ->
           ReviewFailedOutcome(step_type, Get(res, "issues", <<>>), partial)

\* mutant: the declared outputs are applied after the three file overlays
ExtractStateUpdates_OutputsLast(step, res) ==
    LET outs == [k \in Elems(Get(step, "outputs", <<>>)) \cap DOMAIN res |-> res[k]]
        f == IF "files" \in DOMAIN res THEN [files |-> res["files"]] ELSE EmptyDict
        c == IF "created" \in DOMAIN res
               THEN Merge(f, [created_files |-> res["created"]]) ELSE f
        u == IF "updated" \in DOMAIN res
               THEN Merge(c, [updated_files |-> res["updated"]]) ELSE c
    IN Merge(u, outs)

\* _extract_state_updates
ExtractStateUpdates(step, res) ==
    LET outs == [k \in Elems(Get(step, "outputs", <<>>)) \cap DOMAIN res |-> res[k]]
        f == IF "files" \in DOMAIN res
               THEN Merge(outs, [files |-> res["files"]]) ELSE outs
        c == IF "created" \in DOMAIN res
               THEN Merge(f, [created_files |-> res["created"]]) ELSE f
        u == IF "updated" \in DOMAIN res
               THEN Merge(c, [updated_files |-> res["updated"]]) ELSE c
    IN u

\* the paths _perform_review tries to read
ReviewReads(res) ==
    Elems(Get(res, "files", <<>>)) \cup Elems(Get(res, "created", <<>>))
        \cup Elems(Get(res, "updated", <<>>))

\* _perform_review, up to the call of the reviewer
BuildReviewInput(res, step, readable) ==
    LET f == IF "files" \in DOMAIN res
               THEN PrepareFiles(res["files"], readable) ELSE <<>>
        c == IF "created" \in DOMAIN res
               THEN PrepareFiles(res["created"], readable) ELSE <<>>
        u == IF "updated" \in DOMAIN res
               THEN PrepareFiles(res["updated"], readable) ELSE <<>>
    IN Merge([action |-> Get(step, "review_type", "code_review"),
              code |-> [files |-> f \o c \o u]],
             Get(step, "review_params", EmptyDict))

\* mutant: a rejection reports the suggestions
ReviewVerdict_Suggestions(rr) ==
    IF Get(rr, "status", None) = "failed"
      THEN [approved |-> FALSE, feedback |-> Get(rr, "suggestions", <<>>)]
      ELSE [approved |-> TRUE, feedback |-> Get(rr, "suggestions", <<>>)]

\* mutant: the verdict of the reviewer is ignored
ReviewVerdict_Approving(rr) ==
    [approved |-> TRUE, feedback |-> Get(rr, "suggestions", <<>>)]

\* mutant: only status "success" approves
ReviewVerdict_Strict(rr) ==
    IF Get(rr, "status", None) # "success"
      THEN [approved |-> FALSE, feedback |-> Get(rr, "issues", <<>>)]
      ELSE [approved |-> TRUE, feedback |-> Get(rr, "suggestions", <<>>)]

\* _perform_review, after the reviewer returned
ReviewVerdict(rr) ==
    IF Get(rr, "status", None) = "failed"
      THEN [approved |-> FALSE, feedback |-> Get(rr, "issues", <<>>)]
      ELSE [approved |-> TRUE, feedback |-> Get(rr, "suggestions", <<>>)]

\* mutant: after the second step the loop starts over
NextStep_Retry(n) == IF n = 2 THEN 1 ELSE n + 1

\* mutant: the loop does not advance
NextStep_Stuck(n) == n

\* for step in workflow["steps"]
NextStep(n) == n + 1

AttributeErrorGet ==
    [cls |-> "AttributeError",
     args |-> <<"'NoneType'", "object", "has", "no", "attribute", "'get'">>]

Event(ev, n) == [ev |-> ev, step |-> n]

\* process has neither returned nor raised yet
NoOutcome == [status |-> None]

\* no exception was caught
NoException == [cls |-> None, args |-> <<>>]

\* ------------------------------------------------------------------------
\* State machine
\* ------------------------------------------------------------------------
\* the developer is not creating files
DevAtRest ==
    /\ require_tests = FALSE
    /\ created_files = <<>>
    /\ dev_pos = 0
    /\ dev_pc = "idle"
    /\ dev_sources = 0

\* no learn was called
LearnAtRest ==
    /\ index = EmptyDict
    /\ learn_pc = "idle"
    /\ topic = None
    /\ discoveries = EmptyDict
    /\ returned = EmptyDict

Init ==
    /\ DevAtRest
    /\ LearnAtRest
    /\ config \in {[workflows |-> [n \in {WorkflowName, ""} |-> [steps |-> s]]] :
                       s \in SeqsUpTo(StepCatalog, MaxSteps)}
    /\ config_file \in {[exists |-> TRUE, content |-> config],
                        [exists |-> TRUE, content |-> [agents |-> EmptyDict]],
                        [exists |-> FALSE, content |-> EmptyDict]}
    /\ workflows = Get(LoadConfig(config_file), "workflows", EmptyDict)
    /\ input_data \in Contexts
    /\ pc = "idle"
    /\ i = 0
    /\ results = <<>>
    /\ current_state = EmptyDict
    /\ agent_input = EmptyDict
    /\ result = EmptyDict
    /\ review_input = EmptyDict
    /\ review_result = EmptyDict
    /\ exc = NoException
    /\ outcome = NoOutcome
    /\ trace = <<>>

Return(o) ==
    /\ pc' = "returned"
    /\ outcome' = o

\* process, and _execute_workflow up to the loop
Process ==
    /\ pc = "idle"
    /\ LET workflow_name == Get(input_data, "workflow", None)
       IN IF WorkflowUnknown(workflow_name, workflows)
            THEN /\ pc' = "raised"
                 /\ outcome' = WorkflowError(workflow_name)
                 /\ UNCHANGED <<i, results, current_state>>
            ELSE /\ pc' = "loop"
                 /\ i' = 1
                 /\ results' = <<>>
                 /\ current_state' = input_data
                 /\ UNCHANGED outcome
    /\ UNCHANGED <<dev_vars, learn_vars, config, config_file, workflows, input_data,
                   agent_input, result, review_input,
                   review_result, exc, trace>>

\* one iteration of the loop, up to the call of the agent
StepBegin ==
    /\ pc = "loop"
    /\ i <= Len(Steps)
    /\ LET step == Steps[i]
       IN IF "type" \notin DOMAIN step
            THEN /\ pc' = "raised"
                 /\ outcome' = [cls |-> "KeyError", args |-> <<"type">>]
                 /\ trace' = Append(trace, Event("malformed", i))
                 /\ UNCHANGED agent_input
            ELSE LET step_type == step["type"]
                     agent == Get(step, "agent", "developer")
                 IN \E readable \in SUBSET AugmentReads(step_type, current_state) :
                      /\ agent_input' = Augment(BuildAgentInput(step, current_state),
                                                step_type, current_state, readable)
                      /\ IF agent \in RegisteredAgents
                           THEN /\ pc' = "await_agent"
                                /\ trace' = Append(trace, Event("dispatch", i))
                                /\ UNCHANGED outcome
                           ELSE /\ Return(UnknownAgentOutcome(agent, results))
                                /\ trace' = Append(trace, Event("no_agent", i))
    /\ UNCHANGED <<dev_vars, learn_vars, config, config_file, workflows, input_data,
                   i, results, current_state, result,
                   review_input, review_result, exc>>

\* the agent returned a mapping: classification, record, merge, review call
AgentReturns ==
    /\ pc = "await_agent"
    /\ \E r \in CapResults :
         LET step == Steps[i]
             step_type == step["type"]
             agent == Get(step, "agent", "developer")
             came == Event(IF Get(r, "status", None) \in {"error", "failed"}
                             THEN "result_bad" ELSE "result_ok", i)
         IN /\ result' = r
            /\ IF Classify(r) # "proceed"
                 THEN /\ Return(HaltOutcome(step_type, r, results))
                      /\ trace' = trace \o <<came>>
                      /\ UNCHANGED <<i, results, current_state, review_input>>
                 ELSE /\ results' = Append(results, StepRecord(step_type, agent, r))
                      /\ current_state' = Merge(current_state, ExtractStateUpdates(step, r))
                      /\ IF Get(step, "require_review", FALSE)
                           THEN /\ \E readable \in SUBSET ReviewReads(r) :
                                     review_input' = BuildReviewInput(r, step, readable)
                                /\ pc' = "await_review"
                                /\ trace' = trace \o
                                      <<came, Event("merged", i), Event("gate_call", i)>>
                                /\ UNCHANGED <<i, outcome>>
                           ELSE /\ pc' = "loop"
                                /\ i' = NextStep(i)
                                /\ trace' = trace \o
                                      <<came, Event("merged", i), Event("resolved", i)>>
                                /\ UNCHANGED <<review_input, outcome>>
    /\ UNCHANGED <<dev_vars, learn_vars, config, config_file, workflows, input_data,
                   agent_input, review_result, exc>>

\* the developer, while it runs, changes the component of its input in place
\* (_create_component -> _apply_domain_rules).  agent_input, current_state and
\* the caller's context hold the same component object: input_data.copy() and
\* {**current_state} copy the top level only, and no step of the catalog
\* replaces the key "component".
AgentMutatesInput ==
    /\ pc = "await_agent"
    /\ Get(Steps[i], "agent", "developer") = "developer"
    /\ "component" \in DOMAIN agent_input
    /\ ApplyDomainRules(agent_input["component"]) # agent_input["component"]
    /\ LET changed == ApplyDomainRules(agent_input["component"])
       IN /\ agent_input' = [agent_input EXCEPT !["component"] = changed]
          /\ current_state' =
                IF "component" \in DOMAIN current_state
                  THEN [current_state EXCEPT !["component"] = changed]
                  ELSE current_state
          /\ input_data' =
                IF "component" \in DOMAIN current_state /\ "component" \in DOMAIN input_data
                  THEN [input_data EXCEPT !["component"] = changed]
                  ELSE input_data
    /\ UNCHANGED <<dev_vars, learn_vars, config, config_file, workflows, pc, i, results, result,
                   review_input, review_result, exc, outcome, trace>>

\* the agent returned something that is not a mapping: result.get raises
AgentReturnsNonMapping ==
    /\ pc = "await_agent"
    /\ exc' = AttributeErrorGet
    /\ Return(ExceptionOutcome(Steps[i]["type"], AttributeErrorGet, results))
    /\ trace' = Append(trace, Event("result_not_mapping", i))
    /\ UNCHANGED <<dev_vars, learn_vars, config, config_file, workflows, input_data,
                   i, results, current_state, agent_input,
                   result, review_input, review_result>>

\* the agent raised
AgentRaises ==
    /\ pc = "await_agent"
    /\ \E e \in CapExceptions :
         /\ exc' = e
         /\ Return(ExceptionOutcome(Steps[i]["type"], e, results))
    /\ trace' = Append(trace, Event("raised", i))
    /\ UNCHANGED <<dev_vars, learn_vars, config, config_file, workflows, input_data,
                   i, results, current_state, agent_input,
                   result, review_input, review_result>>

\* mutant: the answer of an approving reviewer is merged into the state
ReviewReturns_Merging ==
    /\ pc = "await_review"
    /\ \E rr \in CapResults :
         LET came == Event(IF Get(rr, "status", None) = "failed"
                             THEN "gate_bad" ELSE "gate_ok", i)
         IN IF ~ReviewVerdict(rr).approved
              THEN /\ Return(ReviewFailedOutcome(Steps[i]["type"],
                                                 ReviewVerdict(rr).feedback, results))
                   /\ review_result' = rr
                   /\ trace' = trace \o <<came>>
                   /\ UNCHANGED <<i, review_input, current_state>>
              ELSE /\ pc' = "loop"
                   /\ i' = NextStep(i)
                   /\ current_state' = Merge(current_state, ExtractStateUpdates(Steps[i], rr))
                   /\ review_input' = EmptyDict
                   /\ review_result' = EmptyDict
                   /\ trace' = trace \o <<came, Event("resolved", i)>>
                   /\ UNCHANGED outcome
    /\ UNCHANGED <<dev_vars, learn_vars, config, config_file, workflows, input_data,
                   results, agent_input, result, exc>>

\* the reviewer of the gate returned a mapping
ReviewReturns ==
    /\ pc = "await_review"
    /\ \E rr \in CapResults :
         LET came == Event(IF Get(rr, "status", None) = "failed"
                             THEN "gate_bad" ELSE "gate_ok", i)
         IN IF ~ReviewVerdict(rr).approved
              THEN /\ Return(ReviewFailedOutcome(Steps[i]["type"],
                                                 ReviewVerdict(rr).feedback, results))
                   /\ review_result' = rr
                   /\ trace' = trace \o <<came>>
                   /\ UNCHANGED <<i, review_input>>
              ELSE /\ pc' = "loop"
                   /\ i' = NextStep(i)
                   \* the locals of _perform_review are gone once it returned
                   /\ review_input' = EmptyDict
                   /\ review_result' = EmptyDict
                   /\ trace' = trace \o <<came, Event("resolved", i)>>
                   /\ UNCHANGED outcome
    /\ UNCHANGED <<dev_vars, learn_vars, config, config_file, workflows, input_data,
                   results, current_state, agent_input,
                   result, exc>>

\* the reviewer of the gate returned something that is not a mapping
ReviewReturnsNonMapping ==
    /\ pc = "await_review"
    /\ exc' = AttributeErrorGet
    /\ Return(ExceptionOutcome(Steps[i]["type"], AttributeErrorGet, results))
    /\ trace' = Append(trace, Event("gate_not_mapping", i))
    /\ UNCHANGED <<dev_vars, learn_vars, config, config_file, workflows, input_data,
                   i, results, current_state, agent_input,
                   result, review_input, review_result>>

\* the reviewer of the gate raised
ReviewRaises ==
    /\ pc = "await_review"
    /\ \E e \in CapExceptions :
         /\ exc' = e
         /\ Return(ExceptionOutcome(Steps[i]["type"], e, results))
    /\ trace' = Append(trace, Event("gate_raised", i))
    /\ UNCHANGED <<dev_vars, learn_vars, config, config_file, workflows, input_data,
                   i, results, current_state, agent_input,
                   result, review_input, review_result>>

\* the loop is exhausted
Complete ==
    /\ pc = "loop"
    /\ i > Len(Steps)
    /\ Return(CompletedOutcome(results))
    /\ UNCHANGED <<dev_vars, learn_vars, config, config_file, workflows, input_data,
                   i, results, current_state, agent_input,
                   result, review_input, review_result, exc, trace>>

Next ==
    \/ Process
    \/ StepBegin
    \/ AgentMutatesInput
    \/ AgentReturns
    \/ AgentReturnsNonMapping
    \/ AgentRaises
    \/ ReviewReturns
    \/ ReviewReturnsNonMapping
    \/ ReviewRaises
    \/ Complete

Spec == Init /\ [][Next]_vars

\* every call of a capability and every file read returns, and the engine's
\* own code between two awaits runs to its end
FairSpec == Spec /\ WF_vars(Next)

\* no process call is under way: the engine's variables in one state of Init
EngineAtRest ==
    /\ config = [workflows |-> [n \in {WorkflowName} |-> [steps |-> <<>>]]]
    /\ config_file = [exists |-> FALSE, content |-> EmptyDict]
    /\ workflows = Get(LoadConfig(config_file), "workflows", EmptyDict)
    /\ input_data = CtxNoName
    /\ pc = "idle"
    /\ i = 0
    /\ results = <<>>
    /\ current_state = EmptyDict
    /\ agent_input = EmptyDict
    /\ result = EmptyDict
    /\ review_input = EmptyDict
    /\ review_result = EmptyDict
    /\ exc = NoException
    /\ outcome = NoOutcome
    /\ trace = <<>>

\* ------------------------------------------------------------------------
\* DeveloperAgent: the test files of _create_component and _fix_issue
\*
\* A file name is "test_" * pre + stem + (".test" if dot_test) + suffix;
\* ".test." is in the name exactly when dot_test holds.
\* ------------------------------------------------------------------------
FileName(pre, stem, dot_test, suffix) ==
    [pre |-> pre, stem |-> stem, dot_test |-> dot_test, suffix |-> suffix]

\* the value of _get_test_path that `if test_path:` takes as false
NoPath == FileName(0, "", FALSE, "")

SourceFiles ==
    { FileName(0, "Button", FALSE, ".tsx"),
      FileName(0, "api", TRUE, ".ts"),
      FileName(0, "util", FALSE, ".py"),
      FileName(0, "README", FALSE, ".md") }

\* _get_test_path
GetTestPath(file_path) ==
    IF file_path.dot_test THEN NoPath
    ELSE IF file_path.suffix \in {".tsx", ".ts", ".jsx", ".js"}
      THEN [file_path EXCEPT !.dot_test = TRUE]
    ELSE IF file_path.suffix = ".py"
      THEN [file_path EXCEPT !.pre = @ + 1]
    ELSE NoPath

\* open(test_path, "w") of a name the file system takes
NameFits(test_path) == test_path.pre <= NameMax

DevInit ==
    /\ EngineAtRest
    /\ LearnAtRest
    /\ require_tests \in BOOLEAN
    /\ created_files \in SeqsUpTo(SourceFiles, MaxFiles)
    /\ dev_pos = 1
    /\ dev_pc = "tests"
    /\ dev_sources = Len(created_files)

\* one iteration of `for file_path in created_files`: the list iterator
\* reads position dev_pos of the list as it is now
TestFileStep ==
    /\ dev_pc = "tests"
    /\ require_tests
    /\ dev_pos <= Len(created_files)
    /\ LET test_path == GetTestPath(created_files[dev_pos])
       IN IF test_path = NoPath
            THEN /\ dev_pos' = dev_pos + 1
                 /\ UNCHANGED <<created_files, dev_pc>>
            ELSE \E written \in {ok \in BOOLEAN : ok => NameFits(test_path)} :
                   IF written
                     THEN /\ created_files' = Append(created_files, test_path)
                          /\ dev_pos' = dev_pos + 1
                          /\ UNCHANGED dev_pc
                     ELSE /\ dev_pc' = "error"
                          /\ UNCHANGED <<created_files, dev_pos>>
    /\ UNCHANGED <<engine_vars, learn_vars, require_tests, dev_sources>>

\* the loop is exhausted, or no tests are asked for: status "success"
TestFilesDone ==
    /\ dev_pc = "tests"
    /\ ~require_tests \/ dev_pos > Len(created_files)
    /\ dev_pc' = "success"
    /\ UNCHANGED <<engine_vars, learn_vars, require_tests, created_files,
                   dev_pos, dev_sources>>

DevNext ==
    \/ TestFileStep
    \/ TestFilesDone

DevSpec == DevInit /\ [][DevNext]_vars

\* ------------------------------------------------------------------------
\* BaseAgent.learn and KnowledgeBase
\* ------------------------------------------------------------------------
Topics == {"react hooks", "auth", ""}

\* KnowledgeBase.get_knowledge(topic=topic): the ids found;
\* `if topic and topic in self.index["topics"]`
GetKnowledge(idx, t) ==
    IF t # "" /\ t \in DOMAIN idx THEN Elems(idx[t]) ELSE {}

\* the entries the index lists under a topic
EntryCount(idx, t) == IF t \in DOMAIN idx THEN Len(idx[t]) ELSE 0

\* KnowledgeBase.add_knowledge: the index of topics afterwards
AddKnowledge(idx, t, knowledge_id) ==
    IF t \notin DOMAIN idx
      THEN Merge(idx, [k \in {t} |-> <<knowledge_id>>])
      ELSE [idx EXCEPT ![t] = Append(@, knowledge_id)]

\* the sum of a counter over the topics
RECURSIVE SumOver(_, _)
SumOver(f, S) ==
    IF S = {} THEN 0
    ELSE LET x == CHOOSE y \in S : TRUE
         IN f[x] + SumOver(f, S \ {x})

LearnInit ==
    /\ EngineAtRest
    /\ DevAtRest
    /\ index = EmptyDict
    /\ learn_pc = "idle"
    /\ topic \in Topics
    /\ discoveries = [t \in Topics |-> 0]
    /\ returned = [t \in Topics |-> 0]

\* learn(topic), up to the return of the summary or the await of the
\* discovery.  discoveries counts the discoveries begun for a topic of which
\* a learn has already returned.
LearnBegin ==
    /\ learn_pc = "idle"
    /\ SumOver(returned, Topics) + SumOver(discoveries, Topics) < MaxLearns
    /\ \E t \in Topics :
         /\ topic' = t
         /\ IF GetKnowledge(index, t) # {}
              THEN /\ returned' = [returned EXCEPT ![t] = @ + 1]
                   /\ UNCHANGED <<learn_pc, discoveries>>
              ELSE /\ learn_pc' = "discovering"
                   /\ discoveries' = [discoveries EXCEPT ![t] =
                                          IF returned[t] >= 1 THEN @ + 1 ELSE @]
                   /\ UNCHANGED returned
    /\ UNCHANGED <<engine_vars, dev_vars, index>>

\* _discover_and_implement returned: the knowledge is stored and summarized
LearnStore ==
    /\ learn_pc = "discovering"
    /\ index' = AddKnowledge(index, topic, <<topic, EntryCount(index, topic) + 1>>)
    /\ returned' = [returned EXCEPT ![topic] = @ + 1]
    /\ learn_pc' = "idle"
    /\ UNCHANGED <<engine_vars, dev_vars, topic, discoveries>>

\* _discover_and_implement or the write of the knowledge file raised
LearnRaises ==
    /\ learn_pc = "discovering"
    /\ learn_pc' = "idle"
    /\ UNCHANGED <<engine_vars, dev_vars, index, topic, discoveries, returned>>

LearnNext ==
    \/ LearnBegin
    \/ LearnStore
    \/ LearnRaises

LearnSpec == LearnInit /\ [][LearnNext]_vars

\* ------------------------------------------------------------------------
\* Properties
\* ------------------------------------------------------------------------
Happened(ev, k) == \E m \in DOMAIN trace : trace[m].ev = ev /\ trace[m].step = k

LastEvent == trace[Len(trace)]

LastIs(ev) == trace # <<>> /\ LastEvent.ev = ev

RequiresReview(k) == Get(Steps[k], "require_review", FALSE)

\* records 1..n of a list are the records of the declared steps 1..n
RecordsOfSteps(recs, n) ==
    /\ Len(recs) = n
    /\ \A k \in 1..n :
         /\ recs[k]["step"] = Steps[k]["type"]
         /\ recs[k]["agent"] = Get(Steps[k], "agent", "developer")

\* every step got a result that is neither "error" nor "failed", and every
\* required review gate got an answer other than "failed"
AllProceeded ==
    \A k \in 1..Len(Steps) :
        /\ Happened("result_ok", k)
        /\ RequiresReview(k) => Happened("gate_ok", k)

\* C1: when every one of the N steps of the workflow got a result classified
\* as success and every required review gate approved, process returns status
\* "completed" with exactly N records, record k carrying the type and the
\* agent of declared step k.
C1_CompletedInOrder ==
    (pc = "returned" /\ AllProceeded) =>
        /\ outcome["status"] = "completed"
        /\ RecordsOfSteps(outcome["results"], Len(Steps))

C1_Witness ==
    /\ pc = "returned"
    /\ AllProceeded
    /\ Len(Steps) = 2
    /\ RequiresReview(1)
    /\ "agent" \notin DOMAIN Steps[1]
    /\ outcome["status"] = "completed"

\* the invocation ended at step i with an outcome other than "completed", and
\* not because the review gate of step i rejected
HaltedNotByRejection ==
    /\ pc = "returned"
    /\ outcome["status"] # "completed"
    /\ ~LastIs("gate_bad")

\* the halt happened inside the review gate of step i, after its record was
\* appended
HaltedInGate == LastIs("gate_raised") \/ LastIs("gate_not_mapping")

\* C2 as stated: whenever the workflow halts at step k for a reason other than
\* a review-gate rejection, exceptions inside the review gate included,
\* partial_results has length k-1 and holds no record for step k.
C2_Original ==
    HaltedNotByRejection => RecordsOfSteps(outcome["partial_results"], i - 1)

\* C2 amended: a halt at step k that is not a review-gate rejection returns the
\* k-1 records of the preceding steps when it happens before step k's record is
\* appended (halting classification, unknown agent, exception of the agent
\* call); when the exception is raised inside the review gate, the record of
\* step k is already appended and partial_results has length k.
C2_PartialLength ==
    HaltedNotByRejection =>
        IF HaltedInGate
          THEN RecordsOfSteps(outcome["partial_results"], i)
          ELSE RecordsOfSteps(outcome["partial_results"], i - 1)

C2_Witness ==
    /\ HaltedNotByRejection
    /\ HaltedInGate
    /\ i = 2
    /\ Len(outcome["partial_results"]) = 2

\* C3: when step k requires review, its result is a success and the reviewer
\* of the gate answers status "failed" with issues I, process returns status
\* "review_failed" with step = type of step k, review_feedback = I, and
\* partial_results of length k ending with the record of step k.
C3_GateRejection ==
    \A k \in 1..Len(Steps) :
        (Happened("gate_bad", k) /\ "issues" \in DOMAIN review_result) =>
            /\ pc = "returned"
            /\ outcome["status"] = "review_failed"
            /\ outcome["step"] = Steps[k]["type"]
            /\ outcome["review_feedback"] = review_result["issues"]
            /\ RecordsOfSteps(outcome["partial_results"], k)
            /\ outcome["partial_results"][k]["result"] = result

C3_Witness ==
    /\ Happened("gate_bad", 2)
    /\ RequiresReview(2)
    /\ "issues" \in DOMAIN review_result
    /\ review_result["issues"] # <<>>
    /\ outcome["status"] = "review_failed"

\* C4: when the agent call of step k raises an exception with message m,
\* process returns (it does not raise) status "error" naming step k, with
\* details = m and partial_results = the k-1 records of the preceding steps.
C4_AgentException ==
    \A k \in 1..Len(Steps) :
        Happened("raised", k) =>
            /\ pc = "returned"
            /\ outcome["status"] = "error"
            /\ outcome["error"] = <<"Workflow", "step", Steps[k]["type"], "failed">>
            /\ outcome["details"] =
                  (IF exc.cls = "KeyError" THEN <<Repr(exc.args[1])>> ELSE exc.args)
            /\ RecordsOfSteps(outcome["partial_results"], k - 1)

C4_Witness ==
    /\ Happened("raised", 2)
    /\ exc = [cls |-> "Exception", args |-> <<"disk", "full">>]
    /\ outcome["details"] = <<"disk", "full">>
    /\ Len(outcome["partial_results"]) = 1

\* the error text names a naming-convention or file-path violation
IndicatesViolation(text) ==
    \E s \in 0..Len(text) : \E e \in s..Len(text) :
        SubSeq(text, s + 1, e) \in {InvalidNaming, InvalidPath}

\* C5: when the result of step k has status "error" and an error text, process
\* returns, with partial_results = the records of the steps before k: status
\* "review_failed", step = type of step k and review_feedback = [text] when the
\* text indicates a naming-convention or file-path violation; status "error"
\* with details = text otherwise.
C5_ErrorClassification ==
    \A k \in 1..Len(Steps) :
        (/\ Happened("result_bad", k)
         /\ result["status"] = "error"
         /\ "error" \in DOMAIN result) =>
            /\ pc = "returned"
            /\ RecordsOfSteps(outcome["partial_results"], k - 1)
            /\ IF IndicatesViolation(result["error"])
                 THEN /\ outcome["status"] = "review_failed"
                      /\ outcome["step"] = Steps[k]["type"]
                      /\ outcome["review_feedback"] = <<result["error"]>>
                 ELSE /\ outcome["status"] = "error"
                      /\ outcome["details"] = result["error"]

C5_Witness ==
    /\ Happened("result_bad", 2)
    /\ result["status"] = "error"
    /\ "error" \in DOMAIN result
    /\ result["error"] # InvalidPath
    /\ IndicatesViolation(result["error"])
    /\ outcome["status"] = "review_failed"

\* the workflow name is missing from the input or is not a loaded workflow
NameNotLoaded ==
    \/ "workflow" \notin DOMAIN input_data
    \/ input_data["workflow"] \notin DOMAIN workflows

\* C6: with a workflow name that is missing or not among the loaded workflows,
\* process raises WorkflowError; no agent or reviewer is called and no step
\* record is produced.
C6_UnknownWorkflow ==
    NameNotLoaded =>
        /\ pc \in {"idle", "raised"}
        /\ pc = "raised" => outcome.cls = "WorkflowError"
        /\ trace = <<>>
        /\ results = <<>>

C6_Witness ==
    /\ pc = "raised"
    /\ input_data = CtxUnknown
    /\ outcome.cls = "WorkflowError"
    /\ WorkflowName \in DOMAIN workflows
    /\ Len(workflows[WorkflowName]["steps"]) = 2

\* C7: once the workflow name is resolved and the loop has started, process
\* never raises: every failure in a step, a step descriptor without a type
\* included, comes back as an outcome.
C7_NeverRaises ==
    pc = "raised" => outcome.cls = "WorkflowError"

\* what ends an invocation at a step
FailureEvents ==
    {"result_bad", "result_not_mapping", "raised", "no_agent", "malformed",
     "gate_bad", "gate_raised", "gate_not_mapping"}

\* C8: after a step produced a halting result, a review rejection or an
\* exception, the invocation is over and no agent and no review gate is called
\* any more.
C8_HaltOnFirstFailure ==
    \A m \in DOMAIN trace :
        trace[m].ev \in FailureEvents =>
            /\ pc \in {"returned", "raised"}
            /\ \A n \in DOMAIN trace :
                 n > m => trace[n].ev \notin {"dispatch", "gate_call"}

C8_Witness ==
    /\ Len(Steps) = 2
    /\ Happened("gate_bad", 1)
    /\ ~Happened("dispatch", 2)
    /\ pc = "returned"

\* C9: the k-th agent call of an invocation is the call of declared step k, and
\* when step k+1 is called, step k has been classified, merged and, if it
\* requires review, approved by its gate, in that order.
C9_SequentialOrder ==
    \A m \in DOMAIN trace :
        trace[m].ev = "dispatch" =>
            LET k == trace[m].step
                At(ev) == {n \in 1..(m - 1) : trace[n] = Event(ev, k - 1)}
            IN /\ Cardinality({n \in 1..m : trace[n].ev = "dispatch"}) = k
               /\ k > 1 =>
                    /\ \A ev \in {"result_ok", "merged", "resolved"} : At(ev) # {}
                    /\ \A a \in At("result_ok"), b \in At("merged") : a < b
                    /\ \A b \in At("merged"), c \in At("resolved") : b < c
                    /\ RequiresReview(k - 1) =>
                         /\ At("gate_ok") # {}
                         /\ \A b \in At("merged"), g \in At("gate_ok"),
                                c \in At("resolved") : b < g /\ g < c

C9_Witness ==
    /\ Happened("dispatch", 2)
    /\ RequiresReview(1)
    /\ Happened("gate_ok", 1)

\* C10: in the input built for a step, a key present both in the step's params
\* and in the current state takes the state's value, and "action" is the
\* step's own type, whatever params and state contain.
C10_ActionAlwaysStepType ==
    pc = "await_agent" =>
        /\ \A k \in DOMAIN Get(Steps[i], "params", EmptyDict) \cap DOMAIN current_state :
             agent_input[k] = current_state[k]
        /\ agent_input["action"] = Steps[i]["type"]

\* the result step j returned, once it is recorded
ResultOf(j) == results[j]["result"]

\* the keys of a result that its step names in outputs
DeclaredKeys(j) == Elems(Get(Steps[j], "outputs", <<>>)) \cap DOMAIN ResultOf(j)

\* the state keys the merge of step j writes
WrittenKeys(j) ==
    DeclaredKeys(j)
        \cup (IF "files" \in DOMAIN ResultOf(j) THEN {"files"} ELSE {})
        \cup (IF "created" \in DOMAIN ResultOf(j) THEN {"created_files"} ELSE {})
        \cup (IF "updated" \in DOMAIN ResultOf(j) THEN {"updated_files"} ELSE {})

\* key k, written by the merge of step j, is not written again before step i
NotRewritten(j, k) == \A l \in (j + 1)..(i - 1) : k \notin WrittenKeys(l)

\* C11 as stated: a key k of step j's result that step j names in outputs has,
\* in the input built for every later step, the value step j produced, until a
\* later merge writes k again.
C11_Original ==
    pc = "await_agent" =>
        \A j \in 1..(i - 1) : \A k \in DeclaredKeys(j) :
            NotRewritten(j, k) =>
                /\ k \in DOMAIN agent_input
                /\ agent_input[k] = ResultOf(j)[k]

\* the merge of step j itself replaces the declared key k by result.created /
\* result.updated
Overlaid(j, k) ==
    \/ k = "created_files" /\ "created" \in DOMAIN ResultOf(j)
    \/ k = "updated_files" /\ "updated" \in DOMAIN ResultOf(j)

\* the engine puts its own field under key k in the input of step i
Augmented(k) ==
    \/ k = "code" /\ Steps[i]["type"] = "review_code"
    \/ k = "fix" /\ Steps[i]["type"] = "verify_fix"

\* C11 amended: the same, except that created_files / updated_files hold
\* result.created / result.updated when the result of step j carries them, and
\* that the input of a review_code (verify_fix) step holds the engine-built
\* field under "code" ("fix").
C11_StateMonotonic ==
    pc = "await_agent" =>
        \A j \in 1..(i - 1) : \A k \in DeclaredKeys(j) :
            (NotRewritten(j, k) /\ ~Augmented(k)) =>
                /\ k \in DOMAIN agent_input
                /\ agent_input[k] =
                      (IF ~Overlaid(j, k) THEN ResultOf(j)[k]
                       ELSE IF k = "created_files" THEN ResultOf(j)["created"]
                       ELSE ResultOf(j)["updated"])

C11_Witness ==
    /\ pc = "await_agent"
    /\ i = 2
    /\ Get(input_data, "domain", None) = "mobile"
    /\ "domain" \in DeclaredKeys(1)
    /\ Steps[2] = StepCreate
    /\ agent_input["domain"] = ResultOf(1)["domain"]

\* C12: every value process returns has status "completed", "review_failed" or
\* "error"; every outcome other than "completed" carries partial_results, and
\* that list is exactly the records, in order, of the steps whose result was
\* classified as success so far, a prefix of the steps of the workflow; this
\* includes the outcome returned for a step that names an unknown agent.
C12_OutcomeShape ==
    pc = "returned" =>
        /\ outcome["status"] \in {"completed", "review_failed", "error"}
        /\ outcome["status"] # "completed" =>
             /\ "partial_results" \in DOMAIN outcome
             /\ outcome["partial_results"] = results
             /\ RecordsOfSteps(outcome["partial_results"],
                               Len(outcome["partial_results"]))
             /\ \A k \in 1..Len(Steps) :
                  Happened("result_ok", k) <=> k <= Len(outcome["partial_results"])

C12_Witness ==
    /\ pc = "returned"
    /\ LastIs("no_agent")
    /\ i = 2
    /\ outcome["status"] = "error"
    /\ Len(outcome["partial_results"]) = 1

\* some step of the workflow that runs names an agent that is not registered
UnknownAgentNamed ==
    \E k \in 1..Len(Steps) : Get(Steps[k], "agent", "developer") \notin RegisteredAgents

\* C13 as stated: a step naming an unregistered agent is a configuration-time
\* fatal error: no step of such a workflow is dispatched, nothing is recorded
\* and the failure never comes up as the outcome of a step.
C13_Original ==
    UnknownAgentNamed =>
        /\ results = <<>>
        /\ \A m \in DOMAIN trace : trace[m].ev \notin {"dispatch", "no_agent"}

\* C13 amended: the agent name of a step is looked up when the step is
\* reached.  The steps before it have run and are recorded; for step k naming
\* an unregistered agent no capability is called, process returns (it does not
\* raise) status "error" with error "Unknown agent type: <name>" and the k-1
\* records of the earlier steps, and step k is the last step looked at.
C13_UnknownAgentAtDispatch ==
    \A k \in 1..Len(Steps) :
        LET agent == Get(Steps[k], "agent", "developer")
        IN /\ (agent \notin RegisteredAgents /\ i = k /\ pc \notin {"idle", "loop", "raised"}) =>
                 /\ pc = "returned"
                 /\ LastIs("no_agent")
           /\ Happened("no_agent", k) =>
                 /\ agent \notin RegisteredAgents
                 /\ pc = "returned"
                 /\ i = k
                 /\ ~Happened("dispatch", k)
                 /\ \A j \in 1..(k - 1) : Happened("dispatch", j) /\ Happened("result_ok", j)
                 /\ outcome = [status |-> "error",
                               error |-> <<"Unknown", "agent", "type:", agent>>,
                               partial_results |-> results]
                 /\ RecordsOfSteps(results, k - 1)

C13_Witness ==
    /\ Happened("no_agent", 2)
    /\ Happened("dispatch", 1)
    /\ Happened("gate_ok", 1)
    /\ pc = "returned"
    /\ Len(results) = 1

\* C14: an OrchestratorAgent constructed with a config mapping that defines
\* workflow W runs it: process({"workflow": W, ...}) does not fail with the
\* unknown-workflow error, whether config/config.yaml exists or not and
\* whatever it contains.
C14_ConstructorConfigRuns ==
    LET W == Get(input_data, "workflow", None)
    IN (W # "" /\ W \in DOMAIN config["workflows"]) =>
           ~(pc = "raised" /\ outcome.cls = "WorkflowError")

\* C15: a capability result with status "failed" halts the workflow at that
\* step: process returns status "review_failed", step = the type of the step,
\* review_feedback = the issues of the result (the empty list when it has
\* none) and partial_results = the records of the earlier steps, without the
\* failing step.
C15_FailedResult ==
    (LastIs("result_bad") /\ Get(result, "status", None) = "failed") =>
        /\ pc = "returned"
        /\ outcome = [status |-> "review_failed",
                      step |-> Steps[i]["type"],
                      review_feedback |-> IF "issues" \in DOMAIN result
                                            THEN result["issues"] ELSE <<>>,
                      partial_results |-> results]
        /\ RecordsOfSteps(results, i - 1)

C15_Witness ==
    /\ pc = "returned"
    /\ LastIs("result_bad")
    /\ i = 2
    /\ result = [status |-> "failed", issues |-> <<"domain_boundary", "test_coverage">>]
    /\ outcome["review_feedback"] = <<"domain_boundary", "test_coverage">>
    /\ Len(outcome["partial_results"]) = 1

\* the agent of the current step just returned a mapping whose status is
\* absent or is neither "error" nor "failed"
ReturnedOtherStatus ==
    /\ pc = "await_agent"
    /\ result' \in CapResults
    /\ Len(trace') > Len(trace)
    /\ trace'[Len(trace) + 1].ev \in {"result_ok", "result_bad"}
    /\ Get(result', "status", None) \notin {"error", "failed"}

\* C16: a capability result whose status is absent or is anything but "error"
\* and "failed" (a result with only an error key included) is a success: the
\* record {type of the step, agent, result} is appended and the workflow
\* advances, to the review gate of the step or to the next step.
C16_DefaultSuccess ==
    [][ReturnedOtherStatus =>
            /\ results' = Append(results,
                                 [step |-> Steps[i]["type"],
                                  agent |-> Get(Steps[i], "agent", "developer"),
                                  result |-> result'])
            /\ \/ pc' = "await_review" /\ i' = i /\ RequiresReview(i)
               \/ pc' = "loop" /\ i' = i + 1 /\ ~RequiresReview(i)]_vars

C16_Witness ==
    /\ pc = "loop"
    /\ i = 2
    /\ Len(results) = 1
    /\ results[1]["result"] = [error |-> <<"Action", "not", "allowed:", "deploy">>]
    /\ results[1]["agent"] = "reviewer"

\* the merge of the result of the current step has just run
MergeRan == pc = "await_agent" /\ Len(results') = Len(results) + 1

\* the keys of the overlays of a merge, and the result key each is read from
OverlayKeys(r) ==
    {k \in {"files", "created_files", "updated_files"} :
        (CASE k = "files" -> "files"
           [] k = "created_files" -> "created"
           [] OTHER -> "updated") \in DOMAIN r}

\* the value key k has after the merge of result r of step st into state
MergedValue(k, st, r, state) ==
    IF k = "updated_files" /\ "updated" \in DOMAIN r THEN r["updated"]
    ELSE IF k = "created_files" /\ "created" \in DOMAIN r THEN r["created"]
    ELSE IF k = "files" /\ "files" \in DOMAIN r THEN r["files"]
    ELSE IF k \in Elems(Get(st, "outputs", <<>>)) /\ k \in DOMAIN r THEN r[k]
    ELSE state[k]

\* C17: the merge after a successful step yields the previous state overlaid,
\* later overlays winning, by each key of step.outputs the result contains,
\* then files = result.files, created_files = result.created and
\* updated_files = result.updated, each if present.  No other key is added,
\* changed or removed, and a written key takes the whole new value.
C17_MergeOverlays ==
    [][MergeRan =>
          LET r == result'
              st == Steps[i]
          IN /\ DOMAIN current_state' =
                    DOMAIN current_state
                      \cup (Elems(Get(st, "outputs", <<>>)) \cap DOMAIN r)
                      \cup OverlayKeys(r)
             /\ \A k \in DOMAIN current_state' :
                    current_state'[k] = MergedValue(k, st, r, current_state)]_vars

C17_Witness ==
    /\ Happened("merged", 2)
    /\ Steps[1] = StepImplement
    /\ Steps[2] = StepImplement
    /\ "files" \in DOMAIN results[1]["result"]
    /\ "created" \in DOMAIN results[2]["result"]
    /\ "created_files" \in DOMAIN results[2]["result"]
    /\ current_state["created_files"] = results[2]["result"]["created"]
    /\ current_state["files"] = results[1]["result"]["files"]
    /\ "code" \in DOMAIN current_state
    /\ "workflow" \in DOMAIN current_state

\* C18: the execution state is private to one invocation: it starts as a copy
\* of the caller's context, process leaves the caller's context mapping
\* unchanged, and nothing a capability does to the input it receives changes
\* the state seen by later steps: the state changes only through the merge of
\* the result of a step.
C18_StatePrivate ==
    [][/\ input_data' = input_data
       /\ pc = "idle" /\ pc' = "loop" => current_state' = input_data
       /\ (pc # "idle" /\ ~MergeRan) => current_state' = current_state]_vars

\* the reviewer of the gate of the current step just answered: "gate_ok" for
\* a mapping with any status other than "failed" or with none, "gate_bad" for
\* status "failed"
GateAnswered(ev) ==
    /\ pc = "await_review"
    /\ Len(trace') > Len(trace)
    /\ trace'[Len(trace) + 1].ev = ev

\* C19: approval never halts: when the reviewer of the gate returns any status
\* other than "failed", or none, the step is approved and the workflow goes on
\* to the next step; a rejection (status "failed") always ends the invocation
\* with status "review_failed".
C19_ApprovalNeverHalts ==
    [][/\ GateAnswered("gate_ok") =>
              /\ pc' = "loop"
              /\ i' = i + 1
              /\ outcome' = outcome
              /\ results' = results
       /\ GateAnswered("gate_bad") =>
              /\ pc' = "returned"
              /\ outcome'["status"] = "review_failed"]_vars

C19_Witness ==
    /\ pc = "await_agent"
    /\ i = 2
    /\ Happened("gate_ok", 1)
    /\ Happened("resolved", 1)
    /\ LastIs("dispatch")

\* C20: the review input the gate sends has action = the review_type of the
\* step, or "review_code" when the step declares none, and has the
\* review_params of the step merged on top of the keys the engine built.
C20_ReviewInputAction ==
    pc = "await_review" =>
        LET step == Steps[i]
            review_params == Get(step, "review_params", EmptyDict)
        IN /\ \A k \in DOMAIN review_params : review_input[k] = review_params[k]
           /\ "action" \notin DOMAIN review_params =>
                 review_input["action"] = Get(step, "review_type", "review_code")

\* the paths of a list of prepared files, in order
PathsOf(fs) == [n \in DOMAIN fs |-> fs[n]["path"]]

\* C21: the file list of a review input holds each readable path of
\* result.files, result.created and result.updated exactly once: a path found
\* in more than one of those lists is not sent twice.
C21_ReviewFilesDeduplicated ==
    (pc = "await_review" /\ "code" \notin DOMAIN Get(Steps[i], "review_params", EmptyDict)) =>
        LET paths == PathsOf(review_input["code"]["files"])
        IN /\ Elems(paths) \subseteq ReviewReads(result)
           /\ \A a, b \in DOMAIN paths : a # b => paths[a] # paths[b]

\* step k names an agent other than the two the engine dispatches to
NamesUnregistered(k) == Get(Steps[k], "agent", "developer") \notin {"developer", "reviewer"}

\* the loop got as far as step k
Reached(k) == \E m \in DOMAIN trace : trace[m].step >= k

\* C22: a step whose agent name is not registered fails only when that step is
\* reached: every earlier step has been dispatched and recorded, the outcome
\* has status "error" with the records of the earlier steps as
\* partial_results, and no later step runs.
C22_UnknownAgentWhenReached ==
    \A k \in 1..Len(Steps) :
        NamesUnregistered(k) =>
            /\ ~Reached(k) => (pc = "returned" => i < k)
            /\ Reached(k) =>
                 /\ pc = "returned"
                 /\ i = k
                 /\ outcome["status"] = "error"
                 /\ outcome["partial_results"] = results
                 /\ RecordsOfSteps(results, k - 1)
                 /\ \A j \in 1..(k - 1) : Happened("dispatch", j)
                 /\ \A m \in DOMAIN trace :
                      /\ trace[m].step <= k
                      /\ trace[m].step = k => trace[m].ev = "no_agent"

C22_Witness ==
    /\ LastIs("no_agent")
    /\ Len(Steps) = 2
    /\ NamesUnregistered(2)
    /\ Happened("resolved", 1)
    /\ ~RequiresReview(1)
    /\ RecordsOfSteps(outcome["partial_results"], 1)

\* the entries for the paths of a list that are in S, in the order of the list
ReadableEntries(files, S) ==
    LET Test(p) == p \in S
        sel == SelectSeq(files, Test)
    IN [n \in DOMAIN sel |-> [path |-> sel[n], content |-> Content(sel[n])]]

\* the loop is about to begin a review_code step of a registered agent
BeginsReviewCode ==
    /\ pc = "loop"
    /\ i <= Len(Steps)
    /\ "type" \in DOMAIN Steps[i]
    /\ Steps[i]["type"] = "review_code"
    /\ ~NamesUnregistered(i)

\* C23: for a review_code step, a failure to read a path listed in the files
\* of the state never aborts the step or the workflow: the capability is
\* dispatched all the same, with code.files holding the readable files only,
\* in the order of the state; what happens next depends on its response.
C23_ReadFailureTolerated ==
    [][BeginsReviewCode =>
          /\ pc' = "await_agent"
          /\ i' = i
          /\ outcome' = outcome
          /\ "code" \in DOMAIN agent_input'
          /\ LET files == Get(current_state, "files", <<>>)
             IN \E S \in SUBSET Elems(files) :
                    agent_input'["code"] = [files |-> ReadableEntries(files, S)]]_vars

C23_Witness ==
    /\ pc = "await_agent"
    /\ Steps[i]["type"] = "review_code"
    /\ Get(current_state, "files", <<>>) = <<"a.tsx", "b.py">>
    /\ agent_input["code"]["files"] = <<[path |-> "b.py", content |-> Content("b.py")]>>

\* C24: the record log is append-only: during an invocation the list of
\* records only grows, by exactly one record, at the end, for each step whose
\* result is classified as success; a record already in the list is never
\* removed, moved or changed by later steps, merges or review gates.
C24_AppendOnlyLog ==
    [][IF ReturnedOtherStatus
         THEN results' = results \o
                  <<[step |-> Steps[i]["type"],
                     agent |-> Get(Steps[i], "agent", "developer"),
                     result |-> result']>>
         ELSE results' = results]_vars

C24_Witness ==
    /\ pc = "loop"
    /\ Len(results) = 2
    /\ Happened("gate_ok", 2)
    /\ Happened("resolved", 1)
    /\ results[1]["agent"] = "reviewer"
    /\ results[1]["step"] = Steps[1]["type"]

\* process has ended: it returned an outcome, or it raised (WorkflowError
\* before the loop, or the KeyError of a step descriptor without a type)
Terminated == pc \in {"returned", "raised"}

\* the positions of the trace at which step k was handed to its agent
Dispatches(k) == {m \in DOMAIN trace : trace[m].ev = "dispatch" /\ trace[m].step = k}

\* one pass over the steps: the loop index stays within the workflow and no
\* step is handed to its agent twice
OnePass ==
    /\ i <= Len(Steps) + 1
    /\ \A k \in 1..Len(Steps) : Cardinality(Dispatches(k)) <= 1

IssuesFound == ReviewCodeResult(<<"test_coverage">>)

\* step k was a review_code step of the reviewer, and review_code found an issue
ReviewStepFoundIssue(k) ==
    /\ results[k]["agent"] = "reviewer"
    /\ results[k]["step"] = "review_code"
    /\ results[k]["result"] = IssuesFound

\* C26: review gates progress: whenever review_code of the reviewer finds at
\* least one issue, as a workflow step or in the review gate of a step, the
\* workflow halts with status "review_failed" and never reaches "completed".
C26_ReviewGatesProgress ==
    /\ pc = "await_review" => ~ReviewVerdict(IssuesFound).approved
    /\ \A k \in 1..Len(results) :
          ReviewStepFoundIssue(k) =>
              /\ pc = "returned"
              /\ outcome["status"] = "review_failed"

\* the test paths the loop added to the list
GeneratedTests == SubSeq(created_files, dev_sources + 1, Len(created_files))

\* C27: the loop that creates the test files adds at most one test path per
\* source file and ends with status "success" unless a write fails for a
\* reason of its own: a generated test path never makes the loop generate a
\* further test path, for .ts/.tsx/.js/.jsx and for .py files alike.
C27_OneTestPerSource ==
    /\ Len(GeneratedTests) <= dev_sources
    /\ \A n \in DOMAIN GeneratedTests : GetTestPath(GeneratedTests[n]) = NoPath

\* C28: the review gate only reads the engine's state: what the reviewer of a
\* gate answers is never merged into the execution state and never appended
\* to the records, so state and records after an approved gate are those from
\* just before the gate ran; and a step without require_review never gets a
\* gate call.
C28_GateReadOnly ==
    [][/\ pc = "await_review" =>
              /\ current_state' = current_state
              /\ results' = results
       /\ (pc # "await_review" /\ pc' = "await_review") =>
              /\ "require_review" \in DOMAIN Steps[i]
              /\ Steps[i]["require_review"] = TRUE]_vars

C28_Witness ==
    /\ pc = "loop"
    /\ i = 2
    /\ LastIs("resolved")
    /\ Happened("gate_ok", 1)
    /\ Len(results) = 1
    /\ DOMAIN current_state = DOMAIN input_data \cup {"files"}
    /\ "files" \notin DOMAIN input_data

\* C29: the key set of the execution state never shrinks: every key of the
\* initial context, the key of the workflow name included, and every key an
\* earlier merge wrote is still there in the input of every later step.
C29_KeysNeverShrink ==
    i >= 1 =>
        /\ DOMAIN input_data \subseteq DOMAIN current_state
        /\ \A j \in 1..Len(results) : WrittenKeys(j) \subseteq DOMAIN current_state
        /\ pc = "await_agent" => DOMAIN current_state \subseteq DOMAIN agent_input

C29_Witness ==
    /\ pc = "await_agent"
    /\ i = 2
    /\ Len(results) = 1
    /\ "created_files" \in WrittenKeys(1)
    /\ "created_files" \notin DOMAIN input_data
    /\ {"workflow", "created_files", "issue"} \subseteq DOMAIN agent_input

\* C30: learn is idempotent per topic: once a learn(topic) has returned, every
\* later learn(topic) on the same agent finds the stored entry, starts no
\* discovery and adds no entry, so the topic keeps exactly one entry.
C30_LearnIdempotent ==
    \A t \in Topics :
        returned[t] >= 1 =>
            /\ EntryCount(index, t) = 1
            /\ discoveries[t] = 0

====
